---- MODULE Spec2Model ----
(***************************************************************************)
(* The blog API of src/server.js: four Express handlers in front of a      *)
(* relational Data Store that holds the tables posts and comments.         *)
(*                                                                         *)
(* A nullable value (a JSON field that may be missing, an SQL column that  *)
(* may be NULL) is a sequence of length at most one: NULL is <<>> and the  *)
(* value v is <<v>>.  A table is the set of its rows; a select returns the *)
(* set of the rows it matches (no order is guaranteed).  The column        *)
(* created_at (DEFAULT NOW()) is read by no handler and is left out.       *)
(*                                                                         *)
(* Every handler is an async function with one await: it runs up to the    *)
(* query (...Start), the Data Store executes the query atomically or the   *)
(* call fails on the way, and the handler runs from the await to its       *)
(* response (...Resume).  Handlers of different requests interleave at the *)
(* awaits.                                                                 *)
(***************************************************************************)
EXTENDS Integers, Sequences, FiniteSets, TLC

\* The number of requests the service receives in a run.
MaxReqs == 2

TitleMaxLen == 255
AuthorMaxLen == 100

NULL == <<>>
Some(v) == <<v>>
Val(x) == x[1]

Reqs == 1 .. MaxReqs

RECURSIVE Rep(_, _)
Rep(s, n) == IF n = 0 THEN "" ELSE s \o Rep(s, n - 1)
LongTitle == Rep("t", TitleMaxLen + 1)

\* Request bodies of POST /posts, as express.json() parses them: a field the
\* body omits destructures to undefined and reaches the Data Store as NULL.
PostBodies ==
    { [title |-> Some("Hello"),   content |-> Some("World"), author |-> Some("Ann")],
      [title |-> Some(""),        content |-> Some("World"), author |-> Some("Ann")],
      [title |-> NULL,            content |-> Some("World"), author |-> Some("Ann")],
      [title |-> Some(LongTitle), content |-> Some("World"), author |-> Some("Ann")] }

\* Request bodies of POST /comments.
CommentBodies ==
    { [post_id |-> Some(1), content |-> Some("Nice"), author |-> Some("Bob")],
      [post_id |-> Some(999), content |-> Some("Nice"), author |-> NULL],
      [post_id |-> NULL,    content |-> Some("Nice"), author |-> Some("Bob")],
      [post_id |-> Some(1), content |-> NULL,         author |-> Some("Bob")] }

\* The :postId path segment of GET /comments/:postId, a string of characters.
PathParams ==
    { <<"1">>, <<"0", "2">>, <<"9", "9", "9">>, <<"a", "b", "c">> }

\* Messages of the Data Store.
MsgUnreachable == "TypeError: fetch failed"
MsgTitleNull == "null value in column title of relation posts violates not-null constraint"
MsgContentNull == "null value in column content violates not-null constraint"
MsgTooLong == "value too long for type character varying"
MsgForeignKey == "insert on table comments violates foreign key constraint comments_post_id_fkey"
MsgBadInteger == "invalid input syntax for type integer"

VARIABLES
    posts,            \* the rows of table posts
    comments,         \* the rows of table comments
    posts_id_seq,     \* the sequence behind posts.id (SERIAL): its last value
    comments_id_seq,  \* the sequence behind comments.id
    pc,               \* pc[r]: where the handler of request r is
    req,              \* req[r]: the request: its route, body and path parameter
    answer,           \* answer[r]: the { data, error } the awaited query resolved to
    resp              \* resp[r]: the HTTP response sent: status and JSON body

vars == <<posts, comments, posts_id_seq, comments_id_seq, pc, req, answer, resp>>
store == <<posts, comments, posts_id_seq, comments_id_seq>>

NoReq == [route |-> "none", body |-> NULL, postId |-> NULL]
NoAnswer == [data |-> NULL, error |-> NULL]

\* The Data Store outlives the service: the process starts on the tables
\* as earlier runs left them, here either just created and empty, or holding
\* what POST /posts, POST /posts, POST /comments stored.
StoredAtStart ==
    { [posts |-> {}, comments |-> {}, posts_id_seq |-> 0, comments_id_seq |-> 0],
      [posts |-> { [id |-> 1, title |-> Some("Hello"), content |-> Some("World"),
                    author |-> Some("Ann")],
                   [id |-> 2, title |-> Some("Again"), content |-> Some(""),
                    author |-> NULL] },
       comments |-> { [id |-> 1, post_id |-> Some(2), content |-> Some("Nice"),
                       author |-> NULL] },
       posts_id_seq |-> 2, comments_id_seq |-> 1] }

Init ==
    /\ \E s \in StoredAtStart :
        /\ posts = s.posts
        /\ comments = s.comments
        /\ posts_id_seq = s.posts_id_seq
        /\ comments_id_seq = s.comments_id_seq
    /\ pc = [r \in Reqs |-> "idle"]
    /\ req = [r \in Reqs |-> NoReq]
    /\ answer = [r \in Reqs |-> NoAnswer]
    /\ resp = [r \in Reqs |-> NULL]

\* The shape of the state: the columns of the two tables, and per request
\* its place, its query's answer and its response.
TypeOK ==
    /\ posts_id_seq \in Nat /\ comments_id_seq \in Nat
    /\ \A p \in posts :
           /\ DOMAIN p = {"id", "title", "content", "author"}
           /\ p.id \in 1 .. posts_id_seq
           /\ Len(p.title) <= 1 /\ Len(p.content) <= 1 /\ Len(p.author) <= 1
    /\ \A c \in comments :
           /\ DOMAIN c = {"id", "post_id", "content", "author"}
           /\ c.id \in 1 .. comments_id_seq
           /\ c.post_id = NULL \/ (Len(c.post_id) = 1 /\ Val(c.post_id) \in Nat)
           /\ Len(c.content) <= 1 /\ Len(c.author) <= 1
    /\ pc \in [Reqs -> {"idle", "awaiting", "answered", "done"}]
    /\ \A r \in Reqs :
           /\ req[r].route \in {"none", "GET /posts", "POST /posts",
                                "GET /comments/:postId", "POST /comments"}
           /\ (pc[r] = "idle") = (req[r] = NoReq)
           /\ pc[r] \in {"idle", "awaiting"} => answer[r] = NoAnswer
           /\ (pc[r] = "done") = (resp[r] # NULL)
           /\ resp[r] # NULL => Val(resp[r]).status \in {200, 400}

----------------------------------------------------------------------------
(* The Data Store: the schema of src/server.js lines 21-36.                *)

PostIds == { p.id : p \in posts }

\* Postgres reads an integer from the text of a filter value: decimal digits,
\* leading zeros allowed; anything else is an error.
DigitOf(c) ==
    CASE c = "0" -> 0 [] c = "1" -> 1 [] c = "2" -> 2 [] c = "9" -> 9 [] OTHER -> -1

RECURSIVE DigitsValue(_)
DigitsValue(s) ==
    IF s = <<>> THEN 0
    ELSE 10 * DigitsValue(SubSeq(s, 1, Len(s) - 1)) + DigitOf(s[Len(s)])

ParseInteger(s) ==
    IF s # <<>> /\ \A i \in 1 .. Len(s) : DigitOf(s[i]) >= 0
    THEN Some(DigitsValue(s))
    ELSE NULL

\* The constraints of table posts on a row to insert: the error, or NULL.
PostsViolation(row) ==
    IF row.title # NULL /\ Len(Val(row.title)) > TitleMaxLen THEN Some(MsgTooLong)
    ELSE IF row.author # NULL /\ Len(Val(row.author)) > AuthorMaxLen THEN Some(MsgTooLong)
    ELSE IF row.title = NULL THEN Some(MsgTitleNull)
    ELSE IF row.content = NULL THEN Some(MsgContentNull)
    ELSE NULL

\* The constraints of table comments on a row to insert.
CommentsViolation(row) ==
    IF row.author # NULL /\ Len(Val(row.author)) > AuthorMaxLen THEN Some(MsgTooLong)
    ELSE IF row.content = NULL THEN Some(MsgContentNull)
    ELSE IF row.post_id # NULL /\ Val(row.post_id) \notin PostIds THEN Some(MsgForeignKey)
    ELSE NULL

\* Slips of the filter: .eq('id', v), and a select with no filter.
EqId(rows, v) == { c \in rows : c.id = v }
Unfiltered(rows, v) == rows

\* The rows .eq('post_id', v) keeps.
EqPostId(rows, v) == { c \in rows : c.post_id = Some(v) }

\* A slip of the identifier: the last value read, not advanced.
CurrVal(seq) == IF seq = 0 THEN 1 ELSE seq

\* id SERIAL: the column defaults to the next value of its sequence.
NextVal(seq) == seq + 1

\* A slip of the insert: insert([{ title, content }]).
PostRowNoAuthor(id, b) ==
    [id |-> id, title |-> b.title, content |-> b.content, author |-> NULL]

\* The row the Data Store builds from the object given to insert().
PostRow(id, b) ==
    [id |-> id, title |-> b.title, content |-> b.content, author |-> b.author]

CommentRow(id, b) ==
    [id |-> id, post_id |-> b.post_id, content |-> b.content, author |-> b.author]

\* A slip of the insert: upsert(row, { onConflict: 'author' }).
Upserted(table, row) == { t \in table : t.author # row.author } \cup {row}

\* A table after the insert of a row that meets its constraints.
Inserted(table, row) == table \cup {row}

----------------------------------------------------------------------------
(* The handlers, up to their await.                                        *)

\* Requests are numbered in the order they arrive.
Arrives(r) ==
    /\ pc[r] = "idle"
    /\ \A q \in Reqs : q < r => pc[q] # "idle"

\* The handler runs to its await: the query is in flight.
Issue(r, request) ==
    /\ pc' = [pc EXCEPT ![r] = "awaiting"]
    /\ req' = [req EXCEPT ![r] = request]

GetPostsStart(r) ==
    /\ Arrives(r)
    /\ Issue(r, [route |-> "GET /posts", body |-> NULL, postId |-> NULL])
    /\ UNCHANGED <<store, answer, resp>>

PostPostsStart(r) ==
    /\ Arrives(r)
    /\ \E b \in PostBodies :
           Issue(r, [route |-> "POST /posts",
                     body |-> Some([title |-> b.title, content |-> b.content,
                                    author |-> b.author]),
                     postId |-> NULL])
    /\ UNCHANGED <<store, answer, resp>>

GetCommentsStart(r) ==
    /\ Arrives(r)
    /\ \E p \in PathParams :
           Issue(r, [route |-> "GET /comments/:postId", body |-> NULL, postId |-> Some(p)])
    /\ UNCHANGED <<store, answer, resp>>

PostCommentsStart(r) ==
    /\ Arrives(r)
    /\ \E b \in CommentBodies :
           Issue(r, [route |-> "POST /comments",
                     body |-> Some([post_id |-> b.post_id, content |-> b.content,
                                    author |-> b.author]),
                     postId |-> NULL])
    /\ UNCHANGED <<store, answer, resp>>

----------------------------------------------------------------------------
(* The awaited queries.                                                    *)

Awaiting(r, route) == pc[r] = "awaiting" /\ req[r].route = route

Resolve(r, data, error) ==
    /\ pc' = [pc EXCEPT ![r] = "answered"]
    /\ answer' = [answer EXCEPT ![r] = [data |-> data, error |-> error]]
    /\ UNCHANGED <<req, resp>>

Failure(msg) == Some([message |-> msg])

\* supabase.from('posts').select('*')
SelectPosts(r) ==
    /\ Awaiting(r, "GET /posts")
    /\ Resolve(r, Some(posts), NULL)
    /\ UNCHANGED store

\* supabase.from('posts').insert([{ title, content, author }]): one INSERT
\* statement.  The id is drawn from the sequence before the constraints are
\* looked at, so a refused row uses up an id.  An insert without .select()
\* resolves with no data.
InsertPost(r) ==
    /\ Awaiting(r, "POST /posts")
    /\ LET b == Val(req[r].body)
           id == NextVal(posts_id_seq)
           row == PostRow(id, b)
           err == PostsViolation(row)
       IN  /\ posts_id_seq' = id
           /\ IF err = NULL
              THEN /\ posts' = Inserted(posts, row)
                   /\ Resolve(r, NULL, NULL)
              ELSE /\ posts' = posts
                   /\ Resolve(r, NULL, Failure(Val(err)))
    /\ UNCHANGED <<comments, comments_id_seq>>

\* supabase.from('comments').select('*').eq('post_id', postId)
SelectComments(r) ==
    /\ Awaiting(r, "GET /comments/:postId")
    /\ LET v == ParseInteger(Val(req[r].postId))
       IN  IF v = NULL
           THEN Resolve(r, NULL, Failure(MsgBadInteger))
           ELSE Resolve(r, Some(EqPostId(comments, Val(v))), NULL)
    /\ UNCHANGED store

\* supabase.from('comments').insert([{ post_id, content, author }]): as above.
InsertComment(r) ==
    /\ Awaiting(r, "POST /comments")
    /\ LET b == Val(req[r].body)
           id == NextVal(comments_id_seq)
           row == CommentRow(id, b)
           err == CommentsViolation(row)
       IN  /\ comments_id_seq' = id
           /\ IF err = NULL
              THEN /\ comments' = Inserted(comments, row)
                   /\ Resolve(r, NULL, NULL)
              ELSE /\ comments' = comments
                   /\ Resolve(r, NULL, Failure(Val(err)))
    /\ UNCHANGED <<posts, posts_id_seq>>

\* The Data Store cannot be reached: the query is not executed and the
\* client resolves to an error.
Unreachable(r) ==
    /\ pc[r] = "awaiting"
    /\ Resolve(r, NULL, Failure(MsgUnreachable))
    /\ UNCHANGED store

----------------------------------------------------------------------------
(* The handlers, from their await on.                                      *)

\* A slip of the handler: the error is not looked at.
ReplyData(ans) == [status |-> 200, body |-> ans.data]

\* if (error) return res.status(400).json({ error: error.message });
\* res.json(data);
Reply(ans) ==
    IF ans.error # NULL
    THEN [status |-> 400, body |-> [error |-> Val(ans.error).message]]
    ELSE [status |-> 200, body |-> ans.data]

\* A slip of the scheduling: a handler that also waits for every query in
\* flight (one query at a time).
CanResumeSerial(r) == pc[r] = "answered" /\ \A q \in Reqs : pc[q] # "awaiting"

\* An await suspends its own handler only: the handler resumes as soon as
\* its own query has resolved.
CanResume(r) == pc[r] = "answered"

Resumes(r, route) == CanResume(r) /\ req[r].route = route

Respond(r) ==
    /\ pc' = [pc EXCEPT ![r] = "done"]
    /\ resp' = [resp EXCEPT ![r] = Some(Reply(answer[r]))]

GetPostsResume(r) ==
    /\ Resumes(r, "GET /posts")
    /\ Respond(r)
    /\ UNCHANGED <<store, req, answer>>

PostPostsResume(r) ==
    /\ Resumes(r, "POST /posts")
    /\ Respond(r)
    /\ UNCHANGED <<store, req, answer>>

GetCommentsResume(r) ==
    /\ Resumes(r, "GET /comments/:postId")
    /\ Respond(r)
    /\ UNCHANGED <<store, req, answer>>

PostCommentsResume(r) ==
    /\ Resumes(r, "POST /comments")
    /\ Respond(r)
    /\ UNCHANGED <<store, req, answer>>

Handler(r) ==
    \/ GetPostsResume(r)
    \/ PostPostsResume(r)
    \/ GetCommentsResume(r)
    \/ PostCommentsResume(r)

Next ==
    \E r \in Reqs :
        \/ GetPostsStart(r)
        \/ PostPostsStart(r)
        \/ GetCommentsStart(r)
        \/ PostCommentsStart(r)
        \/ SelectPosts(r)
        \/ InsertPost(r)
        \/ SelectComments(r)
        \/ InsertComment(r)
        \/ Unreachable(r)
        \/ GetPostsResume(r)
        \/ PostPostsResume(r)
        \/ GetCommentsResume(r)
        \/ PostCommentsResume(r)

Spec == Init /\ [][Next]_vars

\* The event loop runs the continuation of every resolved await.
FairSpec == Spec /\ \A r \in Reqs : WF_vars(Handler(r))

----------------------------------------------------------------------------
(* The steps and states the properties speak of.                           *)

\* The awaited query of request r resolves in this step.
Resolves(r, route) ==
    pc[r] = "awaiting" /\ pc'[r] = "answered" /\ req[r].route = route

\* ... and the Data Store reported no failure.
Succeeds(r, route) == Resolves(r, route) /\ answer'[r].error = NULL

\* The handler of request r sends its response in this step.
Responds(r) == pc[r] = "answered" /\ pc'[r] = "done"

\* The insert of request c has been stored.
Created(c, route) ==
    req[c].route = route /\ pc[c] \in {"answered", "done"} /\ answer[c].error = NULL

Done(r, route) == pc[r] = "done" /\ req[r].route = route

Status(r) == Val(resp[r]).status
Body(r) == Val(resp[r]).body

\* The integer a path segment is the decimal numeral of.
NumeralOf == [ v \in {1, 2, 999} |->
                 CASE v = 1 -> <<"1">> [] v = 2 -> <<"0", "2">> [] v = 999 -> <<"9", "9", "9">> ]

IdsAtStart == UNION { { p.id : p \in s.posts } : s \in StoredAtStart }

----------------------------------------------------------------------------
\* C1: a Create Post that succeeds stores one Post with the submitted title,
\* content and author under an id no Post had before, and every List Posts
\* the Data Store answers after it responds 200 with a list that contains a
\* Post with these values.
C1_Step ==
    \A r \in Reqs :
        /\ Succeeds(r, "POST /posts") =>
               \E p \in posts' :
                   /\ posts' = posts \cup {p}
                   /\ p.id \notin PostIds
                   /\ p.title = Val(req[r].body).title
                   /\ p.content = Val(req[r].body).content
                   /\ p.author = Val(req[r].body).author
        /\ Succeeds(r, "GET /posts") =>
               \A c \in Reqs :
                   Created(c, "POST /posts") =>
                       \E p \in Val(answer'[r].data) :
                           /\ p.title = Val(req[c].body).title
                           /\ p.content = Val(req[c].body).content
                           /\ p.author = Val(req[c].body).author
        /\ (Responds(r) /\ req[r].route = "GET /posts" /\ answer[r].error = NULL) =>
               resp'[r] = Some([status |-> 200, body |-> answer[r].data])

C1_CreateThenList == [][C1_Step]_vars

\* The scenario of C1: POST /posts {Hello, World, Ann} answered 200, then
\* GET /posts answered 200 with an entry Hello, World, Ann under a new id.
C1_Witness ==
    /\ Done(1, "POST /posts") /\ Status(1) = 200
    /\ Val(req[1].body).title = Some("Hello")
    /\ Done(2, "GET /posts") /\ Status(2) = 200
    /\ \E p \in Val(Body(2)) :
           /\ p.id = posts_id_seq
           /\ p.id \notin IdsAtStart
           /\ p.title = Some("Hello") /\ p.content = Some("World") /\ p.author = Some("Ann")

----------------------------------------------------------------------------
\* C2: a Create Comment whose post_id references no existing Post (a
\* post_id that is the id of no Post, or no post_id at all) is answered 400
\* with the Data Store's message.
C2_DanglingCommentRejected ==
    \A r \in Reqs :
        (/\ Done(r, "POST /comments")
         /\ \/ Val(req[r].body).post_id = NULL
            \/ Val(Val(req[r].body).post_id) \notin PostIds)
        => /\ Status(r) = 400
           /\ answer[r].error # NULL
           /\ Body(r) = [error |-> Val(answer[r].error).message]

----------------------------------------------------------------------------
\* C3: every stored Comment's post_id is the id of a stored Post.
C3_CommentReferencesPost ==
    \A c \in comments : c.post_id # NULL /\ Val(c.post_id) \in PostIds

----------------------------------------------------------------------------
\* C4: once a Comment has been created with the post_id of an existing Post,
\* every List Comments For Post with that id which the Data Store answers
\* responds 200 with a list that contains a Comment of that Post with the
\* submitted content and author.
C4_Step ==
    \A r \in Reqs :
        /\ Succeeds(r, "POST /comments") =>
               \A v \in PostIds :
                   Val(req[r].body).post_id = Some(v) =>
                       \E k \in comments' \ comments :
                           /\ k.post_id = Some(v)
                           /\ k.content = Val(req[r].body).content
                           /\ k.author = Val(req[r].body).author
        /\ Resolves(r, "GET /comments/:postId") =>
               \A c \in Reqs, v \in PostIds \cap DOMAIN NumeralOf :
                   (/\ Created(c, "POST /comments")
                    /\ Val(req[c].body).post_id = Some(v)
                    /\ Val(req[r].postId) = NumeralOf[v]
                    /\ answer'[r].error # Some([message |-> MsgUnreachable]))
                   => /\ answer'[r].error = NULL
                      /\ \E k \in Val(answer'[r].data) :
                             /\ k.post_id = Some(v)
                             /\ k.content = Val(req[c].body).content
                             /\ k.author = Val(req[c].body).author
        /\ (Responds(r) /\ req[r].route = "GET /comments/:postId" /\ answer[r].error = NULL) =>
               resp'[r] = Some([status |-> 200, body |-> answer[r].data])

C4_CreatedCommentListed == [][C4_Step]_vars

\* The case of C4: a Comment on Post 1 is created, then GET /comments/1 is
\* answered 200 with that Comment.
C4_Witness ==
    /\ 1 \in PostIds
    /\ Done(1, "POST /comments") /\ Status(1) = 200
    /\ Val(req[1].body).post_id = Some(1)
    /\ Done(2, "GET /comments/:postId") /\ Status(2) = 200
    /\ Val(req[2].postId) = <<"1">>
    /\ \E k \in Val(Body(2)) :
           k.post_id = Some(1) /\ k.content = Some("Nice") /\ k.author = Some("Bob")

----------------------------------------------------------------------------
\* C5: a request whose query the Data Store failed is answered 400 with
\* { error: message }, the message being the Data Store's and not empty;
\* it is not answered 200 and its query is not issued again.
C5_State ==
    \A r \in Reqs :
        (pc[r] = "done" /\ answer[r].error # NULL) =>
            /\ Status(r) = 400
            /\ Body(r) = [error |-> Val(answer[r].error).message]
            /\ Body(r).error # ""

C5_Step ==
    \A r \in Reqs :
        /\ (pc[r] = "answered" /\ answer[r].error # NULL) =>
               /\ pc'[r] \in {"answered", "done"}
               /\ pc'[r] = "done" => Val(resp'[r]).status = 400
        /\ pc[r] = "done" => (pc'[r] = "done" /\ resp'[r] = resp[r])

C5_FailureIs400 == [](C5_State) /\ [][C5_Step]_vars

\* The case of C5: two endpoints whose queries failed, one because the Data
\* Store was unreachable and one on a constraint, both answered 400.
C5_Witness ==
    /\ Done(1, "GET /posts") /\ answer[1].error = Failure(MsgUnreachable)
    /\ Status(1) = 400 /\ Body(1) = [error |-> MsgUnreachable]
    /\ Done(2, "POST /comments") /\ answer[2].error = Failure(MsgForeignKey)
    /\ Status(2) = 400 /\ Body(2) = [error |-> MsgForeignKey]

----------------------------------------------------------------------------
\* C6: a List Comments For Post the Data Store does not fail responds 200
\* with exactly the stored Comments whose post_id is postId, so with the
\* empty list when postId is the id of no Post.
C6_Step ==
    \A r \in Reqs :
        /\ Succeeds(r, "GET /comments/:postId") =>
               \A v \in DOMAIN NumeralOf :
                   Val(req[r].postId) = NumeralOf[v] =>
                       /\ answer'[r].data =
                              Some({ k \in comments : k.post_id # NULL /\ Val(k.post_id) = v })
                       /\ v \notin PostIds => answer'[r].data = Some({})
        /\ (Responds(r) /\ req[r].route = "GET /comments/:postId" /\ answer[r].error = NULL) =>
               resp'[r] = Some([status |-> 200, body |-> answer[r].data])

C6_ListIsExact == [][C6_Step]_vars

\* The case of C6: GET /comments/999 is answered 200 with the empty list
\* while Comments of other Posts are stored.
C6_Witness ==
    /\ comments # {}
    /\ 999 \notin PostIds
    /\ \E r \in Reqs :
           /\ Done(r, "GET /comments/:postId")
           /\ Val(req[r].postId) = <<"9", "9", "9">>
           /\ Status(r) = 200
           /\ Body(r) = Some({})

----------------------------------------------------------------------------
\* C7: however creates interleave, every insert that succeeds adds exactly
\* one row to its table and removes none, and the ids of the stored Posts,
\* and of the stored Comments, are pairwise distinct.
C7_State ==
    /\ \A p, q \in posts : p.id = q.id => p = q
    /\ \A k, l \in comments : k.id = l.id => k = l

C7_Step ==
    \A r \in Reqs :
        /\ Succeeds(r, "POST /posts") =>
               /\ posts \subseteq posts'
               /\ Cardinality(posts') = Cardinality(posts) + 1
               /\ comments' = comments
        /\ Succeeds(r, "POST /comments") =>
               /\ comments \subseteq comments'
               /\ Cardinality(comments') = Cardinality(comments) + 1
               /\ posts' = posts

C7_CreatesIndependent == [](C7_State) /\ [][C7_Step]_vars

\* The case of C7: two creates in flight together, both stored.
C7_Witness ==
    /\ pc[1] = "answered" /\ pc[2] = "answered"
    /\ Created(1, "POST /posts") /\ Created(2, "POST /posts")
    /\ req[1].body = req[2].body
    /\ Cardinality({ p \in posts : p.title = Val(req[1].body).title }) >= 2

----------------------------------------------------------------------------
\* C8: every stored Post has a title, and the title is not the empty string.
C8_TitleNonEmpty ==
    \A p \in posts : p.title # NULL /\ Val(p.title) # ""

----------------------------------------------------------------------------
\* C9: every request whose query has resolved gets its response, whatever
\* queries of other requests are pending and whether or not they are ever
\* answered; an answer, once given, and a response, once sent, are changed
\* by no later step of any request.
C9_Step ==
    \A r \in Reqs :
        /\ pc[r] = "answered" => answer'[r] = answer[r]
        /\ pc[r] = "done" => (answer'[r] = answer[r] /\ resp'[r] = resp[r])
        /\ Responds(r) => resp'[r] = Some(Reply(answer[r]))

C9_PendingDelaysOnlyItself ==
    /\ \A r \in Reqs : (pc[r] = "answered") ~> (pc[r] = "done" /\ resp[r] # NULL)
    /\ [][C9_Step]_vars

\* The case of C9: the first request is still pending when the second one,
\* which arrived later, has its response.
C9_Witness ==
    /\ pc[1] = "awaiting"
    /\ pc[2] = "done" /\ resp[2] # NULL

----------------------------------------------------------------------------
\* C10: no step removes or changes a stored row, the two list operations
\* change neither table, and a list the Data Store answers holds every row
\* stored by then (of its Post, for Comments).
C10_Step ==
    /\ posts \subseteq posts'
    /\ comments \subseteq comments'
    /\ \A r \in Reqs :
           /\ (req[r].route \in {"GET /posts", "GET /comments/:postId"}
               /\ (Resolves(r, req[r].route) \/ Responds(r)))
              => (posts' = posts /\ comments' = comments)
           /\ Succeeds(r, "GET /posts") => posts \subseteq Val(answer'[r].data)
           /\ Succeeds(r, "GET /comments/:postId") =>
                  /\ Val(answer'[r].data) \subseteq comments
                  /\ \A v \in DOMAIN NumeralOf :
                         Val(req[r].postId) = NumeralOf[v] =>
                             \A k \in comments :
                                 k.post_id = Some(v) => k \in Val(answer'[r].data)

C10_NoUpdateNoDelete == [][C10_Step]_vars

\* The case of C10: a Post stored before is listed, unchanged, after
\* another Post was created.
C10_Witness ==
    /\ Done(1, "POST /posts") /\ Status(1) = 200
    /\ Done(2, "GET /posts") /\ Status(2) = 200
    /\ [id |-> 1, title |-> Some("Hello"), content |-> Some("World"), author |-> Some("Ann")]
           \in Val(Body(2))
    /\ Cardinality(Val(Body(2))) = 3

====
